---- MODULE Spec2Model ----
(***************************************************************************)
(* RtpTransportControllerSend (call/rtp_transport_controller_send.cc).    *)
(*                                                                         *)
(* The controller owns a route table (network_routes_), a bitrate         *)
(* configurator (bitrate_configurator_), a keepalive config (keepalive_), *)
(* a pacer, a congestion controller (send_side_cc_) and a process thread  *)
(* (process_thread_) that ticks the pacer and the congestion controller.  *)
(*                                                                         *)
(* Three specifications share the variables:                               *)
(*   Spec      one caller thread; every public method is one action.      *)
(*   SpecLife  the constructor and the destructor statement by statement, *)
(*             with the process thread ticking the registered modules.    *)
(*   SpecConc  several caller threads; every public method is split at    *)
(*             its accesses to the members, which the source guards with  *)
(*             no lock.                                                    *)
(***************************************************************************)
EXTENDS Integers, Sequences, FiniteSets, TLC

(***************************************************************************)
(* Bounds and input domains.                                               *)
(***************************************************************************)
\* Network ids run over 1..MaxNetId.
MaxNetId == 2

NetIds == 1..MaxNetId

\* The process thread's ticks of one module are counted up to MaxTicks.
MaxTicks == 2

\* In SpecConc every caller thread makes at most MaxCallsPerThread calls.
MaxCallsPerThread == 2

\* The caller threads of SpecConc.
Threads == {"thread_a", "thread_b"}

\* Transport names.
Names == {"t1", "t2"}

\* rtc::NetworkRoute: the fields the controller reads.
Routes == [connected : BOOLEAN, local_network_id : NetIds, remote_network_id : NetIds]

\* BitrateConstraints {min_bitrate_bps, start_bitrate_bps, max_bitrate_bps}.
Constraints(min, start, max) ==
    [min_bitrate_bps |-> min, start_bitrate_bps |-> start, max_bitrate_bps |-> max]

\* BitrateConstraintsMask: three rtc::Optional<int>, an Optional being a set of
\* at most one value.
Mask(min, start, max) ==
    [min_bitrate_bps |-> min, start_bitrate_bps |-> start, max_bitrate_bps |-> max]

\* The configs a controller is constructed with.
InitConfigs == {Constraints(50000, 300000, 2500000), Constraints(100, 300, 1000)}

\* The constraints SetSdpBitrateParameters is called with; start 0 is "unset".
SdpConfigs == InitConfigs \cup {Constraints(100, 0, 1000)}

\* The masks SetClientBitratePreferences is called with.
MaskChoices ==
    {Mask({}, {}, {}), Mask({}, {400}, {}), Mask({}, {}, {1000000}),
     Mask({200}, {}, {1000000})}

\* RtpKeepAliveConfig {timeout_interval_ms, payload_type}: opaque to the
\* controller, which only copies it, member by member.
KeepAlive(timeout, payload) ==
    [timeout_interval_ms |-> timeout, payload_type |-> payload]

\* A default-constructed RtpKeepAliveConfig.
KeepAliveDefault == KeepAlive(-1, 20)

\* The configs SetKeepAliveConfig is called with.
KeepAliveConfigs == {KeepAliveDefault, KeepAlive(5000, 96)}

VARIABLES
    network_routes_,        \* std::map<std::string, rtc::NetworkRoute>
    bitrate_configurator_,  \* RtpBitrateConfigurator: base, mask, effective config
    keepalive_,             \* RtpKeepAliveConfig
    send_side_cc_,          \* the bitrates the congestion controller was last given
    halted,                 \* a fatal RTC_DCHECK aborted the process
    cc_calls,               \* calls made on send_side_cc_ by the last public call
    last_call,              \* the last public call: method and arguments (in
                            \* SpecConc: the SetKeepAliveConfig call that
                            \* returned last)
    pre,                    \* members as they were when the last call started
    prev_sdp,               \* when the last two calls were both
                            \* SetSdpBitrateParameters: the earlier one's argument
    applied,                \* the constraints and the preferences most recently
                            \* passed to the controller
    phase,                  \* where the controller is in its life: a statement of
                            \* the constructor or of the destructor, or "alive"
    process_thread_,        \* ProcessThread: registered modules, running or not
    ticking,                \* the module whose Process() is in flight, or "none"
    ticks,                  \* completed ticks of each module
    tick_log,               \* the phases in which a tick began or ended
    pc,                     \* SpecConc: the statement each caller thread is at
    local,                  \* SpecConc: each thread's call, its locals, and what
                            \* the call observed
    calls_made,             \* SpecConc: the calls each thread has started
    sdp_returned            \* SpecConc: the threads on which a
                            \* SetSdpBitrateParameters call has returned

lifeVars == <<phase, process_thread_, ticking, ticks, tick_log>>

concVars == <<pc, local, calls_made, sdp_returned>>

vars == <<network_routes_, bitrate_configurator_, keepalive_, send_side_cc_,
          halted, cc_calls, last_call, pre, prev_sdp, applied, lifeVars, concVars>>

(***************************************************************************)
(* RtpBitrateConfigurator (call/rtp_bitrate_configurator.cc is not among   *)
(* the sources; modelled from the specification, section 4.3).             *)
(***************************************************************************)
OptOr(opt, dflt) == IF opt = {} THEN dflt ELSE CHOOSE v \in opt : TRUE

\* effective.field = mask.field if present else base.field
Merge(base, mask) ==
    Constraints(OptOr(mask.min_bitrate_bps, base.min_bitrate_bps),
                OptOr(mask.start_bitrate_bps, base.start_bitrate_bps),
                OptOr(mask.max_bitrate_bps, base.max_bitrate_bps))

NoMask == Mask({}, {}, {})

\* RtpBitrateConfigurator(bitrate_config): the mask starts fully absent.
NewConfigurator(bitrate_config) ==
    [base |-> bitrate_config, mask |-> NoMask, config |-> bitrate_config]

GetConfig(configurator) == configurator.config

\* Both mutators: the new configurator and the Optional result, which holds the
\* effective config only when it differs from the one held before.
UpdateConstraints(configurator, base, mask) ==
    LET effective == Merge(base, mask) IN
    [configurator |-> [base |-> base, mask |-> mask, config |-> effective],
     updated |-> IF effective = configurator.config THEN {} ELSE {effective}]

UpdateWithSdpParameters(configurator, constraints) ==
    UpdateConstraints(configurator, constraints, configurator.mask)

UpdateWithClientPreferences(configurator, preferences) ==
    UpdateConstraints(configurator, configurator.base, preferences)

(***************************************************************************)
(* Calls on SendSideCongestionController, as the controller makes them.    *)
(***************************************************************************)
SignalNetworkStateCall(state) == [method |-> "SignalNetworkState", state |-> state]

SetBweBitratesCall(min, start, max) ==
    [method |-> "SetBweBitrates", min_bitrate_bps |-> min,
     start_bitrate_bps |-> start, max_bitrate_bps |-> max]

OnNetworkRouteChangedCall(route, start, min, max) ==
    [method |-> "OnNetworkRouteChanged", network_route |-> route,
     start_bitrate_bps |-> start, min_bitrate_bps |-> min, max_bitrate_bps |-> max]

\* The estimator's view after one call: the bitrates it was last given (its
\* network state is its own; the controller keeps no copy of it).
CcAfter(cc, call) ==
    IF call.method = "SignalNetworkState"
    THEN cc
    ELSE [cc EXCEPT !.bitrates = Constraints(call.min_bitrate_bps,
                                             call.start_bitrate_bps,
                                             call.max_bitrate_bps)]

RECURSIVE CcAfterAll(_, _)
CcAfterAll(cc, calls) ==
    IF calls = <<>> THEN cc ELSE CcAfterAll(CcAfter(cc, Head(calls)), Tail(calls))

\* The members a public call may touch, as a snapshot.
Members ==
    [network_routes_ |-> network_routes_,
     bitrate_configurator_ |-> bitrate_configurator_,
     keepalive_ |-> keepalive_,
     send_side_cc_ |-> send_side_cc_]

(***************************************************************************)
(* The constructor's effect on the members (lines 20-40).                  *)
(***************************************************************************)
ConstructorCalls(bitrate_config) ==
    <<SignalNetworkStateCall("kNetworkDown"),
      SetBweBitratesCall(bitrate_config.min_bitrate_bps,
                         bitrate_config.start_bitrate_bps,
                         bitrate_config.max_bitrate_bps)>>

NewCc == [bitrates |-> Constraints(0, 0, 0)]

(***************************************************************************)
(* ProcessThread (modules/utility/source/process_thread_impl.cc is not     *)
(* among the sources; modelled from the specification, section 4.4).       *)
(***************************************************************************)
Modules == {"pacer_", "send_side_cc_"}

\* ProcessThread::Create: no module registered, not running.
ProcessThreadCreate == [modules |-> <<>>, running |-> FALSE]

RegisterModule(thread, module) ==
    [thread EXCEPT !.modules = Append(@, module)]

DeRegisterModule(thread, module) ==
    [thread EXCEPT !.modules = SelectSeq(@, LAMBDA m : m # module)]

Start(thread) == [thread EXCEPT !.running = TRUE]

\* Stop: no further tick is dispatched; the caller is then blocked until the
\* tick in flight has completed (StopReturns).
Stop(thread) == [thread EXCEPT !.running = FALSE]

StopReturns == ticking = "none"

Registered(thread) == {thread.modules[i] : i \in 1..Len(thread.modules)}

NoTicks == [m \in Modules |-> 0]

\* The state a constructed, running controller is in (Spec and SpecConc start
\* here: the constructor has returned).
Constructed ==
    /\ phase = "alive"
    /\ process_thread_ =
           Start(RegisterModule(RegisterModule(ProcessThreadCreate, "pacer_"),
                                "send_side_cc_"))
    /\ ticking = "none"
    /\ ticks = NoTicks
    /\ tick_log = {}

\* No caller thread is inside a call.
NoCallers ==
    /\ pc = [t \in Threads |-> "idle"]
    /\ local = [t \in Threads |-> [method |-> "none"]]
    /\ calls_made = [t \in Threads |-> 0]
    /\ sdp_returned = {}

Init ==
    \E bitrate_config \in InitConfigs :
        /\ Constructed
        /\ NoCallers
        /\ network_routes_ = << >>
        /\ bitrate_configurator_ = NewConfigurator(bitrate_config)
        /\ keepalive_ = KeepAliveDefault
        /\ send_side_cc_ = CcAfterAll(NewCc, ConstructorCalls(bitrate_config))
        /\ halted = FALSE
        /\ cc_calls = ConstructorCalls(bitrate_config)
        /\ last_call = [method |-> "RtpTransportControllerSend",
                        bitrate_config |-> bitrate_config]
        /\ pre = [network_routes_ |-> << >>,
                  bitrate_configurator_ |-> NewConfigurator(bitrate_config),
                  keepalive_ |-> KeepAliveDefault,
                  send_side_cc_ |-> NewCc]
        /\ prev_sdp = {}
        /\ applied = [constraints |-> bitrate_config, preferences |-> NoMask]

(***************************************************************************)
(* Spec: the public methods, one action each.                              *)
(***************************************************************************)
\* What every public call records about itself.
Called(call) ==
    /\ ~halted
    /\ phase = "alive"
    /\ UNCHANGED <<lifeVars, concVars>>
    /\ last_call' = call
    /\ pre' = Members
    /\ prev_sdp' = IF /\ call.method = "SetSdpBitrateParameters"
                      /\ last_call.method = "SetSdpBitrateParameters"
                   THEN {last_call.constraints} ELSE {}

\* The calls of one public call reach the estimator in order.
Deliver(calls) ==
    /\ cc_calls' = calls
    /\ send_side_cc_' = CcAfterAll(send_side_cc_, calls)

\* Line 102: the disconnected route is logged and dropped.
IsConnectedUnchecked(network_route) == TRUE

IsConnected(network_route) == network_route.connected

\* Lines 110-113, std::map::insert: the table after the insert and whether it
\* inserted; an existing entry is left as it is.
MapInsertReplacing(table, key, value) ==
    IF key \in DOMAIN table
    THEN [table |-> table, inserted |-> FALSE]
    ELSE [table |-> [k \in {key} |-> value], inserted |-> TRUE]

MapInsertSpilling(table, key, value) ==
    IF key \in DOMAIN table
    THEN [table |-> [k \in DOMAIN table |-> IF k = key THEN table[k] ELSE value],
          inserted |-> FALSE]
    ELSE [table |-> [k \in DOMAIN table \cup {key} |->
                        IF k = key THEN value ELSE table[k]],
          inserted |-> TRUE]

MapInsert(table, key, value) ==
    IF key \in DOMAIN table
    THEN [table |-> table, inserted |-> FALSE]
    ELSE [table |-> [k \in DOMAIN table \cup {key} |->
                        IF k = key THEN value ELSE table[k]],
          inserted |-> TRUE]

\* Lines 114-118: no reset on the first route of a transport, and none when the
\* entry (kv->second) equals the new route.
RouteChangedLocalOnly(inserted, stored, network_route) ==
    ~inserted /\ stored.local_network_id # network_route.local_network_id

RouteChangedAlways(inserted, stored, network_route) == ~inserted

RouteChangedOrFirst(inserted, stored, network_route) ==
    inserted \/ stored # network_route

RouteChanged(inserted, stored, network_route) ==
    ~inserted /\ stored # network_route

\* Line 131, RTC_DCHECK_GT(bitrate_config.start_bitrate_bps, 0): fatal in a build
\* with DCHECKs on, compiled out otherwise.
DcheckFails(dcheck_is_on, bitrate_config) ==
    dcheck_is_on /\ ~(bitrate_config.start_bitrate_bps > 0)

\* Lines 132-134.
ResetBitratesAsSetBwe(network_route, bitrate_config) ==
    OnNetworkRouteChangedCall(network_route, bitrate_config.min_bitrate_bps,
                              bitrate_config.start_bitrate_bps,
                              bitrate_config.max_bitrate_bps)

ResetBitrates(network_route, bitrate_config) ==
    OnNetworkRouteChangedCall(network_route, bitrate_config.start_bitrate_bps,
                              bitrate_config.min_bitrate_bps,
                              bitrate_config.max_bitrate_bps)

\* Lines 98-136.
OnNetworkRouteChanged(transport_name, network_route) ==
    /\ Called([method |-> "OnNetworkRouteChanged",
               transport_name |-> transport_name, network_route |-> network_route])
    /\ UNCHANGED <<bitrate_configurator_, keepalive_, applied>>
    /\ IF ~IsConnected(network_route)
       THEN /\ Deliver(<<>>)
            /\ UNCHANGED <<network_routes_, halted>>
       ELSE LET result == MapInsert(network_routes_, transport_name, network_route)
                kv == result.table[transport_name]
            IN
            IF RouteChanged(result.inserted, kv, network_route)
            THEN LET bitrate_config == GetConfig(bitrate_configurator_) IN
                 /\ network_routes_' =
                        [result.table EXCEPT ![transport_name] = network_route]
                 /\ \E dcheck_is_on \in BOOLEAN :
                       IF DcheckFails(dcheck_is_on, bitrate_config)
                       THEN /\ halted' = TRUE
                            /\ Deliver(<<>>)
                       ELSE /\ UNCHANGED halted
                            /\ Deliver(<<ResetBitrates(network_route,
                                                       bitrate_config)>>)
            ELSE /\ network_routes_' = result.table
                 /\ Deliver(<<>>)
                 /\ UNCHANGED halted

\* Lines 137-140.
OnNetworkAvailabilityInverted(network_available) ==
    /\ Called([method |-> "OnNetworkAvailability",
               network_available |-> network_available])
    /\ Deliver(<<SignalNetworkStateCall(
           IF network_available THEN "kNetworkDown" ELSE "kNetworkUp")>>)
    /\ UNCHANGED <<network_routes_, bitrate_configurator_, keepalive_, halted, applied>>

OnNetworkAvailability(network_available) ==
    /\ Called([method |-> "OnNetworkAvailability",
               network_available |-> network_available])
    /\ Deliver(<<SignalNetworkStateCall(
           IF network_available THEN "kNetworkUp" ELSE "kNetworkDown")>>)
    /\ UNCHANGED <<network_routes_, bitrate_configurator_, keepalive_, halted, applied>>

\* Lines 73-76.
SetKeepAliveConfig(config) ==
    /\ Called([method |-> "SetKeepAliveConfig", config |-> config])
    /\ keepalive_' = config
    /\ Deliver(<<>>)
    /\ UNCHANGED <<network_routes_, bitrate_configurator_, halted, applied>>

\* Lines 165-173 and 180-188: SetBweBitrates with the updated config when the
\* Optional holds one, a log line otherwise.
PushUpdatedAlways(updated, config) ==
    <<SetBweBitratesCall(config.min_bitrate_bps, config.start_bitrate_bps,
                         config.max_bitrate_bps)>>

PushUpdatedNever(updated, config) == <<>>

PushUpdated(updated, config) ==
    IF updated # {}
    THEN LET u == CHOOSE c \in updated : TRUE IN
         <<SetBweBitratesCall(u.min_bitrate_bps, u.start_bitrate_bps,
                              u.max_bitrate_bps)>>
    ELSE <<>>

\* Lines 161-174.
SetSdpBitrateParameters(constraints) ==
    LET r == UpdateWithSdpParameters(bitrate_configurator_, constraints) IN
    /\ Called([method |-> "SetSdpBitrateParameters", constraints |-> constraints])
    /\ bitrate_configurator_' = r.configurator
    /\ applied' = [applied EXCEPT !.constraints = constraints]
    /\ Deliver(PushUpdated(r.updated, GetConfig(r.configurator)))
    /\ UNCHANGED <<network_routes_, keepalive_, halted>>

\* Lines 176-189.
SetClientBitratePreferencesUnfed(preferences) ==
    /\ Called([method |-> "SetClientBitratePreferences", preferences |-> preferences])
    /\ applied' = [applied EXCEPT !.preferences = preferences]
    /\ Deliver(<<>>)
    /\ UNCHANGED <<network_routes_, bitrate_configurator_, keepalive_, halted>>

SetClientBitratePreferences(preferences) ==
    LET r == UpdateWithClientPreferences(bitrate_configurator_, preferences) IN
    /\ Called([method |-> "SetClientBitratePreferences", preferences |-> preferences])
    /\ bitrate_configurator_' = r.configurator
    /\ applied' = [applied EXCEPT !.preferences = preferences]
    /\ Deliver(PushUpdated(r.updated, GetConfig(r.configurator)))
    /\ UNCHANGED <<network_routes_, keepalive_, halted>>

Next ==
    \/ \E transport_name \in Names, network_route \in Routes :
           OnNetworkRouteChanged(transport_name, network_route)
    \/ \E network_available \in BOOLEAN : OnNetworkAvailability(network_available)
    \/ \E config \in KeepAliveConfigs : SetKeepAliveConfig(config)
    \/ \E constraints \in SdpConfigs : SetSdpBitrateParameters(constraints)
    \/ \E preferences \in MaskChoices : SetClientBitratePreferences(preferences)

Spec == Init /\ [][Next]_vars

(***************************************************************************)
(* Properties of Spec.                                                     *)
(***************************************************************************)
BitrateFields == {"min_bitrate_bps", "start_bitrate_bps", "max_bitrate_bps"}

\* config is, field by field, the preference when present, else the constraint.
EffectiveByRule(config, constraints, preferences) ==
    \A f \in BitrateFields :
        IF preferences[f] = {} THEN config[f] = constraints[f]
                               ELSE config[f] \in preferences[f]

LastRouteCall == last_call.method = "OnNetworkRouteChanged"

\* The last call was OnNetworkRouteChanged(name, r2), r2 connected, with a
\* different route r1 stored for name.
ChangedRouteCall ==
    /\ LastRouteCall
    /\ last_call.network_route.connected
    /\ last_call.transport_name \in DOMAIN pre.network_routes_
    /\ pre.network_routes_[last_call.transport_name] # last_call.network_route

\* The effective config when the last call started.
ConfigAtCall == GetConfig(pre.bitrate_configurator_)

\* The reset the estimator is due: the new route with the config at the call.
ExpectedReset ==
    [method |-> "OnNetworkRouteChanged",
     network_route |-> last_call.network_route,
     start_bitrate_bps |-> ConfigAtCall.start_bitrate_bps,
     min_bitrate_bps |-> ConfigAtCall.min_bitrate_bps,
     max_bitrate_bps |-> ConfigAtCall.max_bitrate_bps]

\* C1 as stated: a changed connected route for a known transport name delivers
\* exactly one reset to the estimator, carrying the new route and the effective
\* (start, min, max) at the time of the call, earlier SDP and client updates
\* included.
C1_ResetOnChange ==
    ChangedRouteCall =>
        /\ cc_calls = <<ExpectedReset>>
        /\ EffectiveByRule(ConfigAtCall, applied.constraints, applied.preferences)

\* C1 with the DCHECK of line 131 accounted for: the reset is delivered exactly
\* once whenever the effective start bitrate is positive; when it is not, the
\* call either halts on the DCHECK with no reset delivered (DCHECKs on) or
\* delivers that one reset (DCHECKs compiled out).
C1_ResetOnChangeUnlessHalted ==
    ChangedRouteCall =>
        /\ EffectiveByRule(ConfigAtCall, applied.constraints, applied.preferences)
        /\ network_routes_[last_call.transport_name] = last_call.network_route
        /\ ConfigAtCall.start_bitrate_bps > 0 => ~halted
        /\ IF halted THEN cc_calls = <<>> ELSE cc_calls = <<ExpectedReset>>

\* A reset after both an SDP update and a client update, for a route that
\* differs from the stored one in the remote network id only.
C1_Witness ==
    /\ ChangedRouteCall
    /\ cc_calls = <<ExpectedReset>>
    /\ applied.preferences # NoMask
    /\ applied.constraints # bitrate_configurator_.config
    /\ pre.network_routes_[last_call.transport_name].local_network_id
           = last_call.network_route.local_network_id

\* The last call was OnNetworkRouteChanged(name, r), r connected, name unseen.
FirstRouteCall ==
    /\ LastRouteCall
    /\ last_call.network_route.connected
    /\ last_call.transport_name \notin DOMAIN pre.network_routes_

\* C2: the first connected route of a transport name is stored as its entry and
\* no call reaches the estimator, whatever happened on other names before.
C2_FirstRouteStoredNoReset ==
    FirstRouteCall =>
        /\ DOMAIN network_routes_ =
               DOMAIN pre.network_routes_ \cup {last_call.transport_name}
        /\ network_routes_[last_call.transport_name] = last_call.network_route
        /\ \A n \in DOMAIN pre.network_routes_ :
               network_routes_[n] = pre.network_routes_[n]
        /\ cc_calls = <<>>
        /\ ~halted

\* A first route for one name while another name is already known.
C2_Witness ==
    /\ FirstRouteCall
    /\ DOMAIN pre.network_routes_ # {}
    /\ last_call.transport_name \in DOMAIN network_routes_

\* The last call was OnNetworkRouteChanged(name, r1) with r1 the stored route.
RepeatRouteCall ==
    /\ LastRouteCall
    /\ last_call.network_route.connected
    /\ last_call.transport_name \in DOMAIN pre.network_routes_
    /\ pre.network_routes_[last_call.transport_name] = last_call.network_route

\* C3: repeating the stored route leaves the route table as it was and delivers
\* nothing to the estimator.
C3_NoResetOnRepeat ==
    RepeatRouteCall =>
        /\ network_routes_ = pre.network_routes_
        /\ cc_calls = <<>>
        /\ ~halted

\* A repeat of the stored route, while the estimator holds a config changed
\* since construction.
C3_Witness ==
    /\ RepeatRouteCall
    /\ network_routes_ = pre.network_routes_
    /\ applied.preferences # NoMask

\* The last call was OnNetworkRouteChanged(name, r) with r disconnected.
DisconnectedRouteCall ==
    /\ LastRouteCall
    /\ ~last_call.network_route.connected

\* C4: a disconnected route never changes the route table, for a seen or an
\* unseen name, and causes no call to the estimator.
C4_DisconnectedIgnored ==
    DisconnectedRouteCall =>
        /\ network_routes_ = pre.network_routes_
        /\ cc_calls = <<>>
        /\ send_side_cc_ = pre.send_side_cc_
        /\ ~halted

\* A disconnected route for a known name whose stored ids differ from it, while
\* the other name is unseen.
C4_Witness ==
    /\ DisconnectedRouteCall
    /\ last_call.transport_name \in DOMAIN network_routes_
    /\ network_routes_[last_call.transport_name].remote_network_id
           # last_call.network_route.remote_network_id
    /\ DOMAIN network_routes_ # Names

LastSdpCall == last_call.method = "SetSdpBitrateParameters"

\* C5: a SetSdpBitrateParameters call pushes to the estimator at most once, and a
\* call that directly follows a SetSdpBitrateParameters call with the same
\* constraints makes no SetBweBitrates call.
C5_SameSdpTwiceNoPush ==
    LastSdpCall =>
        /\ Len(cc_calls) <= 1
        /\ prev_sdp = {last_call.constraints} =>
               \A i \in 1..Len(cc_calls) : cc_calls[i].method # "SetBweBitrates"

\* The second of two equal SetSdpBitrateParameters calls, made with constraints
\* other than the constructor's and under a client mask.
C5_Witness ==
    /\ LastSdpCall
    /\ prev_sdp = {last_call.constraints}
    /\ cc_calls = <<>>
    /\ applied.preferences # NoMask
    /\ last_call.constraints.start_bitrate_bps = 0

LastClientCall == last_call.method = "SetClientBitratePreferences"

\* C6: SetClientBitratePreferences pushes the new effective (min, start, max)
\* exactly once when it differs from the effective config before the call, and
\* makes no estimator call when it does not; after construction with
\* {50000, 300000, 2500000}, the mask {max = 1000000} pushes
\* {50000, 300000, 1000000} once.
C6_ClientPreferencesPushOnChange ==
    LastClientCall =>
        LET after == GetConfig(bitrate_configurator_) IN
        /\ EffectiveByRule(after, applied.constraints, last_call.preferences)
        /\ IF after # ConfigAtCall
           THEN cc_calls = <<SetBweBitratesCall(after.min_bitrate_bps,
                                                after.start_bitrate_bps,
                                                after.max_bitrate_bps)>>
           ELSE cc_calls = <<>>
        /\ ( /\ pre.bitrate_configurator_ =
                    NewConfigurator(Constraints(50000, 300000, 2500000))
             /\ last_call.preferences = Mask({}, {}, {1000000}) )
           => cc_calls = <<SetBweBitratesCall(50000, 300000, 1000000)>>

\* The example: the mask {max = 1000000} on the freshly constructed
\* {50000, 300000, 2500000}, pushed once.
C6_Witness ==
    /\ LastClientCall
    /\ pre.bitrate_configurator_ = NewConfigurator(Constraints(50000, 300000, 2500000))
    /\ last_call.preferences = Mask({}, {}, {1000000})
    /\ cc_calls = <<SetBweBitratesCall(50000, 300000, 1000000)>>

\* C7: after any sequence of SetSdpBitrateParameters and
\* SetClientBitratePreferences calls the effective config is, for each of min,
\* start and max, the field of the last mask when present and else the field of
\* the last base; base {100, 300, 1000} with mask {start = 400} gives
\* {100, 400, 1000}.
C7_MergePerField ==
    /\ EffectiveByRule(GetConfig(bitrate_configurator_),
                       applied.constraints, applied.preferences)
    /\ ( /\ applied.constraints = Constraints(100, 300, 1000)
         /\ applied.preferences = Mask({}, {400}, {}) )
       => GetConfig(bitrate_configurator_) = Constraints(100, 400, 1000)

\* The example, reached by a client call on a base that an SDP call installed.
C7_Witness ==
    /\ LastClientCall
    /\ applied.constraints = Constraints(100, 300, 1000)
    /\ applied.preferences = Mask({}, {400}, {})
    /\ pre.bitrate_configurator_.mask # NoMask
    /\ GetConfig(bitrate_configurator_) = Constraints(100, 400, 1000)

\* The calls of the last public call that hand the estimator (min, start, max).
BitrateCalls ==
    {i \in 1..Len(cc_calls) :
        cc_calls[i].method \in {"SetBweBitrates", "OnNetworkRouteChanged"}}

\* C11: every (min, start, max) that reaches the estimator, from the
\* constructor's seed, from a SetSdpBitrateParameters or
\* SetClientBitratePreferences push, or from a route-change reset, has a
\* positive start bitrate.
C11_DispatchedStartPositive ==
    \A i \in BitrateCalls : cc_calls[i].start_bitrate_bps > 0

\* C12: a changed route met while the effective start bitrate is not positive
\* halts the controller, and no reset reaches the estimator.
C12_HaltOnNonPositiveStart ==
    (ChangedRouteCall /\ ~(ConfigAtCall.start_bitrate_bps > 0)) =>
        /\ halted
        /\ cc_calls = <<>>

LastAvailabilityCall == last_call.method = "OnNetworkAvailability"

\* C16: OnNetworkAvailability(b) makes one call on the estimator,
\* SignalNetworkState(kNetworkUp) for b true and SignalNetworkState(kNetworkDown)
\* for b false, and leaves the route table, the merger, the keepalive config
\* and the estimator's bitrates as they were.
C16_AvailabilitySignalsOnly ==
    LastAvailabilityCall =>
        /\ cc_calls = <<SignalNetworkStateCall(
               IF last_call.network_available THEN "kNetworkUp"
                                              ELSE "kNetworkDown")>>
        /\ network_routes_ = pre.network_routes_
        /\ bitrate_configurator_ = pre.bitrate_configurator_
        /\ keepalive_ = pre.keepalive_
        /\ send_side_cc_ = pre.send_side_cc_
        /\ ~halted

\* OnNetworkAvailability(false) on a controller that knows a route and whose
\* merger holds a client mask.
C16_Witness ==
    /\ LastAvailabilityCall
    /\ ~last_call.network_available
    /\ cc_calls = <<SignalNetworkStateCall("kNetworkDown")>>
    /\ DOMAIN network_routes_ # {}
    /\ bitrate_configurator_.mask # NoMask

\* One step of the route table: no name leaves it; the entry of the name of a
\* connected OnNetworkRouteChanged call becomes the route of that call; every
\* other entry stays as it was.
RouteTableStep ==
    /\ DOMAIN network_routes_ \subseteq DOMAIN network_routes_'
    /\ \A n \in DOMAIN network_routes_' :
           /\ network_routes_'[n].connected
           /\ IF /\ last_call'.method = "OnNetworkRouteChanged"
                 /\ last_call'.network_route.connected
                 /\ last_call'.transport_name = n
              THEN network_routes_'[n] = last_call'.network_route
              ELSE /\ n \in DOMAIN network_routes_
                   /\ network_routes_'[n] = network_routes_[n]

\* C17: over any sequence of calls the set of names in the route table never
\* shrinks, and the entry of each name is the most recent connected route
\* handed to OnNetworkRouteChanged for that name, so that every stored route
\* is connected.
C17_RouteTableTracksLastConnected == [][RouteTableStep]_vars

\* Both names known, the entry of one of them overwritten by the last call
\* with a route that differs from the other name's.
C17_Witness ==
    /\ ChangedRouteCall
    /\ DOMAIN network_routes_ = Names
    /\ network_routes_[last_call.transport_name] = last_call.network_route
    /\ \E n \in Names : network_routes_[n] # last_call.network_route

\* The last call reached the reset of lines 131-134: the estimator was called,
\* or the DCHECK before the call stopped the process.
ReachedReset == cc_calls # <<>> \/ halted

\* C20: OnNetworkRouteChanged(name, r) leaves the entry of every other name as
\* it was, and reaches the reset exactly when r is connected and differs from
\* the route stored for name itself, whatever is stored for the other names.
C20_PerNameIndependence ==
    LastRouteCall =>
        /\ DOMAIN network_routes_ \ {last_call.transport_name}
               = DOMAIN pre.network_routes_ \ {last_call.transport_name}
        /\ \A n \in DOMAIN pre.network_routes_ \ {last_call.transport_name} :
               network_routes_[n] = pre.network_routes_[n]
        /\ ReachedReset <=> ChangedRouteCall

\* No reset for a name whose stored route is repeated, while the other name
\* holds a different route; and a reset for a name whose route changed to the
\* very route the other name holds.
C20_Witness ==
    /\ LastRouteCall
    /\ DOMAIN pre.network_routes_ = Names
    /\ \E n \in Names \ {last_call.transport_name} :
           /\ pre.network_routes_[n] = last_call.network_route
           /\ network_routes_[n] = pre.network_routes_[n]
    /\ ChangedRouteCall
    /\ cc_calls = <<ExpectedReset>>

(***************************************************************************)
(* SpecLife: the constructor and the destructor, statement by statement,   *)
(* and the process thread ticking the registered modules meanwhile.        *)
(***************************************************************************)
apiVars == <<network_routes_, bitrate_configurator_, keepalive_, halted,
             last_call, pre, prev_sdp, applied, concVars>>

\* Lines 24-31, the member initialisers: the body of the constructor is next.
InitLife ==
    \E bitrate_config \in InitConfigs :
        /\ network_routes_ = << >>
        /\ bitrate_configurator_ = NewConfigurator(bitrate_config)
        /\ keepalive_ = KeepAliveDefault
        /\ send_side_cc_ = NewCc
        /\ halted = FALSE
        /\ cc_calls = <<>>
        /\ last_call = [method |-> "RtpTransportControllerSend",
                        bitrate_config |-> bitrate_config]
        /\ pre = [network_routes_ |-> << >>,
                  bitrate_configurator_ |-> NewConfigurator(bitrate_config),
                  keepalive_ |-> KeepAliveDefault,
                  send_side_cc_ |-> NewCc]
        /\ prev_sdp = {}
        /\ applied = [constraints |-> bitrate_config, preferences |-> NoMask]
        /\ NoCallers
        /\ phase = "ctor_SignalNetworkState"
        /\ process_thread_ = ProcessThreadCreate
        /\ ticking = "none"
        /\ ticks = NoTicks
        /\ tick_log = {}

\* One more estimator call by the call in progress.
DeliverMore(call) ==
    /\ cc_calls' = Append(cc_calls, call)
    /\ send_side_cc_' = CcAfter(send_side_cc_, call)

\* Line 32.
ConstructSignalNetworkState ==
    /\ phase = "ctor_SignalNetworkState"
    /\ DeliverMore(SignalNetworkStateCall("kNetworkDown"))
    /\ phase' = "ctor_SetBweBitrates"
    /\ UNCHANGED <<apiVars, process_thread_, ticking, ticks, tick_log>>

\* Lines 33-35.
ConstructSetBweBitrates ==
    /\ phase = "ctor_SetBweBitrates"
    /\ DeliverMore(SetBweBitratesCall(last_call.bitrate_config.min_bitrate_bps,
                                      last_call.bitrate_config.start_bitrate_bps,
                                      last_call.bitrate_config.max_bitrate_bps))
    /\ phase' = "ctor_RegisterPacer"
    /\ UNCHANGED <<apiVars, process_thread_, ticking, ticks, tick_log>>

\* Line 37.
ConstructRegisterPacerStarted ==
    /\ phase = "ctor_RegisterPacer"
    /\ process_thread_' = Start(RegisterModule(process_thread_, "pacer_"))
    /\ phase' = "ctor_RegisterCc"
    /\ UNCHANGED <<apiVars, send_side_cc_, cc_calls, ticking, ticks, tick_log>>

ConstructRegisterPacer ==
    /\ phase = "ctor_RegisterPacer"
    /\ process_thread_' = RegisterModule(process_thread_, "pacer_")
    /\ phase' = "ctor_RegisterCc"
    /\ UNCHANGED <<apiVars, send_side_cc_, cc_calls, ticking, ticks, tick_log>>

\* Line 38.
ConstructRegisterCc ==
    /\ phase = "ctor_RegisterCc"
    /\ process_thread_' = RegisterModule(process_thread_, "send_side_cc_")
    /\ phase' = "ctor_Start"
    /\ UNCHANGED <<apiVars, send_side_cc_, cc_calls, ticking, ticks, tick_log>>

\* Line 39; the constructor returns.
ConstructStart ==
    /\ phase = "ctor_Start"
    /\ process_thread_' = Start(process_thread_)
    /\ phase' = "alive"
    /\ UNCHANGED <<apiVars, send_side_cc_, cc_calls, ticking, ticks, tick_log>>

\* Line 43, the call of Stop: the destructor may run whenever the controller is
\* alive.
DestructStopSkipped ==
    /\ phase = "alive"
    /\ phase' = "dtor_DeRegisterCc"
    /\ UNCHANGED <<apiVars, send_side_cc_, cc_calls, process_thread_, ticking,
                   ticks, tick_log>>

DestructStop ==
    /\ phase = "alive"
    /\ process_thread_' = Stop(process_thread_)
    /\ phase' = "dtor_Stop"
    /\ UNCHANGED <<apiVars, send_side_cc_, cc_calls, ticking, ticks, tick_log>>

\* Line 43, Stop returns.
DestructStopReturnsEarly ==
    /\ phase = "dtor_Stop"
    /\ phase' = "dtor_DeRegisterCc"
    /\ UNCHANGED <<apiVars, send_side_cc_, cc_calls, process_thread_, ticking,
                   ticks, tick_log>>

DestructStopReturns ==
    /\ phase = "dtor_Stop"
    /\ StopReturns
    /\ phase' = "dtor_DeRegisterCc"
    /\ UNCHANGED <<apiVars, send_side_cc_, cc_calls, process_thread_, ticking,
                   ticks, tick_log>>

\* Line 44.
DestructDeRegisterCc ==
    /\ phase = "dtor_DeRegisterCc"
    /\ process_thread_' = DeRegisterModule(process_thread_, "send_side_cc_")
    /\ phase' = "dtor_DeRegisterPacer"
    /\ UNCHANGED <<apiVars, send_side_cc_, cc_calls, ticking, ticks, tick_log>>

\* Line 45; the destructor returns.
DestructDeRegisterPacer ==
    /\ phase = "dtor_DeRegisterPacer"
    /\ process_thread_' = DeRegisterModule(process_thread_, "pacer_")
    /\ phase' = "destroyed"
    /\ UNCHANGED <<apiVars, send_side_cc_, cc_calls, ticking, ticks, tick_log>>

\* The process thread calls Process() of a registered module while it runs, one
\* module at a time.
TickBegin(module) ==
    /\ process_thread_.running
    /\ module \in Registered(process_thread_)
    /\ ticking = "none"
    /\ ticks[module] < MaxTicks
    /\ ticking' = module
    /\ tick_log' = tick_log \cup {phase}
    /\ UNCHANGED <<apiVars, send_side_cc_, cc_calls, phase, process_thread_, ticks>>

\* Process() returns.
TickEnd ==
    /\ ticking # "none"
    /\ ticks' = [ticks EXCEPT ![ticking] = @ + 1]
    /\ ticking' = "none"
    /\ tick_log' = tick_log \cup {phase}
    /\ UNCHANGED <<apiVars, send_side_cc_, cc_calls, phase, process_thread_>>

NextLife ==
    \/ ConstructSignalNetworkState
    \/ ConstructSetBweBitrates
    \/ ConstructRegisterPacer
    \/ ConstructRegisterCc
    \/ ConstructStart
    \/ DestructStop
    \/ DestructStopReturns
    \/ DestructDeRegisterCc
    \/ DestructDeRegisterPacer
    \/ \E module \in Modules : TickBegin(module)
    \/ TickEnd

SpecLife == InitLife /\ [][NextLife]_vars

\* C8: no tick of the pacer or of the estimator begins or ends outside the span
\* from the worker's Start in the constructor to the return of Stop in the
\* destructor; once the destructor has returned no tick is in flight and none
\* has happened since.
C8_NoTickAfterDestruction ==
    /\ tick_log \subseteq {"alive", "dtor_Stop"}
    /\ ticking # "none" => phase \in {"alive", "dtor_Stop"}
    /\ phase = "destroyed" =>
           /\ ~process_thread_.running
           /\ Registered(process_thread_) = {}

\* A destroyed controller both of whose modules were ticked, the last tick
\* ending while Stop was waiting for it.
C8_Witness ==
    /\ phase = "destroyed"
    /\ \A m \in Modules : ticks[m] > 0
    /\ "dtor_Stop" \in tick_log

ConstructorPhases == {"ctor_SignalNetworkState", "ctor_SetBweBitrates",
                      "ctor_RegisterPacer", "ctor_RegisterCc", "ctor_Start"}

\* C13: the worker runs only once the estimator has been signalled
\* network-down and seeded with the initial (min, start, max), in that order,
\* and the pacer and then the estimator have been registered; no tick begins
\* or ends during construction or while a single module is registered; when
\* the constructor has returned both modules are registered and the worker
\* runs.
C13_StartAfterSeedAndRegistration ==
    /\ process_thread_.running =>
           /\ cc_calls = ConstructorCalls(last_call.bitrate_config)
           /\ process_thread_.modules = <<"pacer_", "send_side_cc_">>
    /\ ticking # "none" => Registered(process_thread_) = Modules
    /\ tick_log \cap ConstructorPhases = {}
    /\ phase = "alive" =>
           /\ process_thread_.running
           /\ Registered(process_thread_) = Modules

\* The constructor has returned and the worker, having ticked the pacer, is
\* ticking the estimator.
C13_Witness ==
    /\ phase = "alive"
    /\ process_thread_.running
    /\ cc_calls = ConstructorCalls(last_call.bitrate_config)
    /\ ticks["pacer_"] > 0
    /\ ticking = "send_side_cc_"

DeRegisterPhases == {"dtor_DeRegisterCc", "dtor_DeRegisterPacer", "destroyed"}

\* C14: the destructor deregisters a module only once Stop has returned, with
\* the worker stopped and no tick in flight; the pacer is registered first and
\* deregistered last, the estimator registered second and deregistered first.
C14_StopThenReverseDeregistration ==
    /\ phase \in DeRegisterPhases =>
           /\ ~process_thread_.running
           /\ ticking = "none"
    /\ tick_log \cap DeRegisterPhases = {}
    /\ phase = "ctor_RegisterCc" => process_thread_.modules = <<"pacer_">>
    /\ phase \in {"ctor_Start", "alive", "dtor_Stop", "dtor_DeRegisterCc"} =>
           process_thread_.modules = <<"pacer_", "send_side_cc_">>
    /\ phase = "dtor_DeRegisterPacer" => process_thread_.modules = <<"pacer_">>
    /\ phase = "destroyed" => process_thread_.modules = <<>>

\* The estimator is deregistered and the pacer still registered, after a Stop
\* that had to wait for a tick in flight.
C14_Witness ==
    /\ phase = "dtor_DeRegisterPacer"
    /\ process_thread_.modules = <<"pacer_">>
    /\ "dtor_Stop" \in tick_log
    /\ ticking = "none"

(***************************************************************************)
(* SpecConc: the public methods called from several threads.  The source   *)
(* takes no lock and declares no member atomic, so a method is a sequence   *)
(* of steps, one per access to a member, and the steps of different        *)
(* threads interleave.                                                     *)
(***************************************************************************)
\* The arguments the threads call with.
ConcNames == {"t1"}

ConcRoutes == {r \in Routes : r.local_network_id = 1}

ConcSdpConfigs == InitConfigs

ConcMasks == {NoMask, Mask({}, {400}, {})}

specVars == <<last_call, pre, prev_sdp, applied>>

CanCall(t) ==
    /\ ~halted
    /\ phase = "alive"
    /\ pc[t] = "idle"
    /\ calls_made[t] < MaxCallsPerThread

\* The statements of OnNetworkRouteChanged after the insert.
RoutePcs == {"route_compare", "route_write", "route_GetConfig",
             "route_GetConfig_rest", "route_reset"}

\* A store to the merger's effective config is one more config that a route
\* call in progress may rightly read.
NoteConfig(locals, config) ==
    [t \in Threads |->
        IF pc[t] \in RoutePcs
        THEN [locals[t] EXCEPT !.valid_configs = @ \cup {config}]
        ELSE locals[t]]

\* The calls OnNetworkRouteChanged(transport_name, network_route) that other
\* threads are inside, past the insert.
SameRouteCallsInProgress(t, transport_name, network_route) ==
    {[thread |-> u, call_no |-> local[u].call_no] : u \in
        {u \in Threads \ {t} :
            /\ pc[u] \in RoutePcs
            /\ local[u].transport_name = transport_name
            /\ local[u].network_route = network_route}}

\* Lines 102-117: the connected check, the insert, the return on a first route.
ConcRouteInsert(t, transport_name, network_route) ==
    /\ CanCall(t)
    /\ calls_made' = [calls_made EXCEPT ![t] = @ + 1]
    /\ IF ~IsConnected(network_route)
       THEN /\ local' = [local EXCEPT ![t] = [method |-> "OnNetworkRouteChanged",
                                              returned |-> "disconnected"]]
            /\ UNCHANGED <<network_routes_, pc>>
       ELSE LET result == MapInsert(network_routes_, transport_name, network_route) IN
            /\ network_routes_' = result.table
            /\ IF result.inserted
               THEN /\ local' = [local EXCEPT ![t] =
                                    [method |-> "OnNetworkRouteChanged",
                                     returned |-> "inserted"]]
                    /\ UNCHANGED pc
               ELSE /\ local' = [local EXCEPT ![t] =
                                    [method |-> "OnNetworkRouteChanged",
                                     transport_name |-> transport_name,
                                     network_route |-> network_route,
                                     valid_configs |->
                                         {GetConfig(bitrate_configurator_)},
                                     sdp_before |-> sdp_returned \ {t} # {},
                                     call_no |-> calls_made[t] + 1,
                                     stored_at_start |->
                                         network_routes_[transport_name],
                                     overlapped |->
                                         SameRouteCallsInProgress(
                                             t, transport_name, network_route),
                                     partial |-> {},
                                     bitrate_config |-> {},
                                     delivered |-> {}]]
                    /\ pc' = [pc EXCEPT ![t] = "route_compare"]
    /\ UNCHANGED <<bitrate_configurator_, keepalive_, send_side_cc_, halted,
                   cc_calls, sdp_returned, specVars, lifeVars>>

\* Line 118: kv->second != network_route.
ConcRouteCompare(t) ==
    /\ pc[t] = "route_compare"
    /\ pc' = [pc EXCEPT ![t] =
                 IF RouteChanged(FALSE, network_routes_[local[t].transport_name],
                                 local[t].network_route)
                 THEN "route_write" ELSE "idle"]
    /\ UNCHANGED <<network_routes_, bitrate_configurator_, keepalive_,
                   send_side_cc_, halted, cc_calls, local, calls_made,
                   sdp_returned, specVars, lifeVars>>

\* Line 119: kv->second = network_route.
ConcRouteWrite(t) ==
    /\ pc[t] = "route_write"
    /\ network_routes_' =
           [network_routes_ EXCEPT ![local[t].transport_name] = local[t].network_route]
    /\ pc' = [pc EXCEPT ![t] = "route_GetConfig"]
    /\ UNCHANGED <<bitrate_configurator_, keepalive_, send_side_cc_, halted,
                   cc_calls, local, calls_made, sdp_returned, specVars, lifeVars>>

\* The fields of BitrateConstraints in declaration order, and the places where
\* a copy of the struct may be interrupted.
CopiedFirst == {{"min_bitrate_bps"},
                {"min_bitrate_bps", "start_bitrate_bps"},
                {"min_bitrate_bps", "start_bitrate_bps", "max_bitrate_bps"}}

\* Line 120: the copy of GetConfig()'s three ints starts; the first of them are
\* read now.
ConcRouteGetConfig(t) ==
    /\ pc[t] = "route_GetConfig"
    /\ \E first \in CopiedFirst :
           local' = [local EXCEPT ![t].partial =
                        {[first |-> first,
                          config |-> GetConfig(bitrate_configurator_)]}]
    /\ pc' = [pc EXCEPT ![t] = "route_GetConfig_rest"]
    /\ UNCHANGED <<network_routes_, bitrate_configurator_, keepalive_,
                   send_side_cc_, halted, cc_calls, calls_made, sdp_returned,
                   specVars, lifeVars>>

\* Line 120: the rest of the copy.
ConcRouteGetConfigRest(t) ==
    /\ pc[t] = "route_GetConfig_rest"
    /\ LET p == CHOOSE x \in local[t].partial : TRUE
           now == GetConfig(bitrate_configurator_)
           copy == Constraints(
               IF "min_bitrate_bps" \in p.first
                   THEN p.config.min_bitrate_bps ELSE now.min_bitrate_bps,
               IF "start_bitrate_bps" \in p.first
                   THEN p.config.start_bitrate_bps ELSE now.start_bitrate_bps,
               IF "max_bitrate_bps" \in p.first
                   THEN p.config.max_bitrate_bps ELSE now.max_bitrate_bps)
       IN local' = [local EXCEPT ![t].partial = {}, ![t].bitrate_config = {copy}]
    /\ pc' = [pc EXCEPT ![t] = "route_reset"]
    /\ UNCHANGED <<network_routes_, bitrate_configurator_, keepalive_,
                   send_side_cc_, halted, cc_calls, calls_made, sdp_returned,
                   specVars, lifeVars>>

\* Lines 131-134: the DCHECK and the reset.
ConcRouteReset(t) ==
    /\ pc[t] = "route_reset"
    /\ pc' = [pc EXCEPT ![t] = "idle"]
    /\ LET bitrate_config == CHOOSE c \in local[t].bitrate_config : TRUE IN
       \E dcheck_is_on \in BOOLEAN :
           IF DcheckFails(dcheck_is_on, bitrate_config)
           THEN /\ halted' = TRUE
                /\ UNCHANGED <<local, cc_calls, send_side_cc_>>
           ELSE LET reset == ResetBitrates(local[t].network_route, bitrate_config) IN
                /\ Deliver(<<reset>>)
                /\ local' = [local EXCEPT ![t].delivered = {reset}]
                /\ UNCHANGED halted
    /\ UNCHANGED <<network_routes_, bitrate_configurator_, keepalive_,
                   calls_made, sdp_returned, specVars, lifeVars>>

\* Lines 163-164 and 178-179: the update of the merger, and the return when it
\* reports no change.
ConcUpdate(t, method, r) ==
    /\ CanCall(t)
    /\ calls_made' = [calls_made EXCEPT ![t] = @ + 1]
    /\ bitrate_configurator_' = r.configurator
    /\ local' = [NoteConfig(local, GetConfig(r.configurator)) EXCEPT ![t] =
                    [method |-> method, updated |-> r.updated,
                     config |-> GetConfig(r.configurator)]]
    /\ pc' = [pc EXCEPT ![t] = IF r.updated # {} THEN "push" ELSE "idle"]
    /\ sdp_returned' = IF method = "SetSdpBitrateParameters" /\ r.updated = {}
                       THEN sdp_returned \cup {t} ELSE sdp_returned
    /\ UNCHANGED <<network_routes_, keepalive_, send_side_cc_, halted, cc_calls,
                   specVars, lifeVars>>

ConcSdpUpdate(t, constraints) ==
    ConcUpdate(t, "SetSdpBitrateParameters",
               UpdateWithSdpParameters(bitrate_configurator_, constraints))

ConcClientUpdate(t, preferences) ==
    ConcUpdate(t, "SetClientBitratePreferences",
               UpdateWithClientPreferences(bitrate_configurator_, preferences))

\* Lines 165-168 and 180-183: SetBweBitrates with the updated config.
ConcPush(t) ==
    /\ pc[t] = "push"
    /\ Deliver(PushUpdated(local[t].updated, local[t].config))
    /\ pc' = [pc EXCEPT ![t] = "idle"]
    /\ sdp_returned' = IF local[t].method = "SetSdpBitrateParameters"
                       THEN sdp_returned \cup {t} ELSE sdp_returned
    /\ UNCHANGED <<network_routes_, bitrate_configurator_, keepalive_, halted,
                   local, calls_made, specVars, lifeVars>>

\* Line 75, keepalive_ = config: the copy of the first member.
ConcSetKeepAliveConfig(t, config) ==
    /\ CanCall(t)
    /\ calls_made' = [calls_made EXCEPT ![t] = @ + 1]
    /\ keepalive_' = [keepalive_ EXCEPT
                          !.timeout_interval_ms = config.timeout_interval_ms]
    /\ local' = [local EXCEPT ![t] = [method |-> "SetKeepAliveConfig",
                                      config |-> config]]
    /\ pc' = [pc EXCEPT ![t] = "keepalive_rest"]
    /\ UNCHANGED <<network_routes_, bitrate_configurator_, send_side_cc_, halted,
                   cc_calls, sdp_returned, specVars, lifeVars>>

\* Line 75: the copy of the second member, and the return.  last_call keeps the
\* SetKeepAliveConfig call that returned last.
ConcSetKeepAliveConfigRest(t) ==
    /\ pc[t] = "keepalive_rest"
    /\ keepalive_' = [keepalive_ EXCEPT
                          !.payload_type = local[t].config.payload_type]
    /\ pc' = [pc EXCEPT ![t] = "idle"]
    /\ last_call' = [method |-> "SetKeepAliveConfig", config |-> local[t].config]
    /\ UNCHANGED <<network_routes_, bitrate_configurator_, send_side_cc_, halted,
                   cc_calls, local, calls_made, sdp_returned, pre, prev_sdp,
                   applied, lifeVars>>

NextConc ==
    \E t \in Threads :
        \/ \E transport_name \in ConcNames, network_route \in ConcRoutes :
               ConcRouteInsert(t, transport_name, network_route)
        \/ ConcRouteCompare(t)
        \/ ConcRouteWrite(t)
        \/ ConcRouteGetConfig(t)
        \/ ConcRouteGetConfigRest(t)
        \/ ConcRouteReset(t)
        \/ \E constraints \in ConcSdpConfigs : ConcSdpUpdate(t, constraints)
        \/ \E preferences \in ConcMasks : ConcClientUpdate(t, preferences)
        \/ ConcPush(t)
        \/ \E config \in KeepAliveConfigs : ConcSetKeepAliveConfig(t, config)
        \/ ConcSetKeepAliveConfigRest(t)

SpecConc == Init /\ [][NextConc]_vars

\* A thread has read the entry of a transport name (line 118 found it different
\* from the new route) and has not yet written it (line 119).
InRouteReadModifyWrite(t) == pc[t] = "route_write"

\* C9: no two threads are at once inside a read-modify-write of the controller's
\* state.
C9_MutualExclusion ==
    \A t1, t2 \in Threads :
        t1 # t2 => ~(InRouteReadModifyWrite(t1) /\ InRouteReadModifyWrite(t2))

\* C10: when a SetSdpBitrateParameters call had returned on another thread
\* before an OnNetworkRouteChanged call started, the reset of that route call
\* carries an effective config that the merger held during the call, hence one
\* that includes the SDP update.
C10_ResetSeesSdpUpdate ==
    \A t \in Threads :
        ( /\ local[t].method = "OnNetworkRouteChanged"
          /\ pc[t] = "idle"
          /\ "delivered" \in DOMAIN local[t]
          /\ local[t].delivered # {}
          /\ local[t].sdp_before )
        => \A d \in local[t].delivered :
               Constraints(d.min_bitrate_bps, d.start_bitrate_bps,
                           d.max_bitrate_bps) \in local[t].valid_configs

\* No thread is inside a public call.
Quiescent == \A t \in Threads : pc[t] = "idle"

\* C15: once every SetKeepAliveConfig call has returned, the stored keepalive
\* config, which keepalive_config() returns, is the argument of the call that
\* returned last, also when the calls came from several threads.
C15_KeepAliveLastWriteWins ==
    (Quiescent /\ last_call.method = "SetKeepAliveConfig") =>
        keepalive_ = last_call.config

\* C18: whenever no public call is in progress, the (min, start, max) the
\* estimator was last given is the merger's effective config, for every
\* interleaving of SetSdpBitrateParameters, SetClientBitratePreferences and
\* OnNetworkRouteChanged calls.
C18_EstimatorMatchesMerger ==
    (Quiescent /\ ~halted) =>
        send_side_cc_.bitrates = GetConfig(bitrate_configurator_)

\* Thread t has completed a call OnNetworkRouteChanged(name, r2) that it began
\* with a route other than r2 stored for name.
CompletedChangedRouteCall(t) ==
    /\ pc[t] = "idle"
    /\ local[t].method = "OnNetworkRouteChanged"
    /\ "stored_at_start" \in DOMAIN local[t]
    /\ local[t].stored_at_start # local[t].network_route

\* C19: of two calls OnNetworkRouteChanged(name, r2) that overlap on two
\* threads, both begun while a route r1 # r2 is stored for name, exactly one
\* delivers a reset, and the stored route ends as r2.
C19_OneResetForConcurrentSameRoute ==
    \A t1, t2 \in Threads :
        ( /\ t1 # t2
          /\ ~halted
          /\ CompletedChangedRouteCall(t1)
          /\ CompletedChangedRouteCall(t2)
          /\ [thread |-> t1, call_no |-> local[t1].call_no]
                 \in local[t2].overlapped )
        => /\ (local[t1].delivered = {}) # (local[t2].delivered = {})
           /\ network_routes_[local[t2].transport_name] = local[t2].network_route

====
